---------------------------- MODULE Spec2Model ----------------------------
(***************************************************************************)
(* Model of the timecode library: the frame-rate classification of         *)
(* Timecode.framerate, the frames <-> timecode codec (tc_to_frames,        *)
(* frames_to_tc, tc_to_string, parse_timecode), the timestamp projections  *)
(* and the arithmetic operators of class Timecode.                         *)
(*                                                                         *)
(* Numbers.  A Fraction is kept as a mixed number [ip, fn, fd] standing    *)
(* for ip + fn/fd with 0 <= fn < fd and gcd(fn, fd) = 1, so that decimal   *)
(* literals with nine fractional digits stay inside the integer range of   *)
(* the model checker; comparisons of Fractions are exact (Euclid).  Where  *)
(* the library computes in binary floating point (the NTSC tolerance test, *)
(* the 0.066666 drop-frame factor, the 3-decimal frame fraction) the model *)
(* computes the same expression over the rationals; the rates of the model *)
(* keep these expressions away from rounding ties.                         *)
(*                                                                         *)
(* Text.  A str is a sequence of one-character strings.                    *)
(***************************************************************************)
EXTENDS Integers, Sequences, FiniteSets, TLC

VARIABLES
    tc,     \* the Timecode instance under test
    ret,    \* the last call made on it: its arguments, whether it raised, its result
    hist    \* the call before that (codec runs only)

vars == <<tc, ret, hist>>

---------------------------------------------------------------------------
(* Integer helpers *)

Abs(x) == IF x < 0 THEN -x ELSE x

Sign(x) == IF x < 0 THEN -1 ELSE IF x = 0 THEN 0 ELSE 1

RECURSIVE GCD(_, _)
GCD(a, b) == IF b = 0 THEN a ELSE GCD(b, a % b)

(* Python round() of the rational a/b (b > 0): nearest integer, ties to even *)
RoundHalfEven(a, b) ==
    LET q == a \div b
        r == a % b
    IN  IF 2 * r < b THEN q
        ELSE IF 2 * r > b THEN q + 1
        ELSE IF q % 2 = 0 THEN q ELSE q + 1

(* sign of a/b - c/d for a, c >= 0 and b, d > 0, without forming a*d *)
RECURSIVE CmpPos(_, _, _, _)
CmpPos(a, b, c, d) ==
    LET qa == a \div b
        qc == c \div d
        ra == a % b
        rc == c % d
    IN  IF qa # qc THEN Sign(qa - qc)
        ELSE IF ra = 0 \/ rc = 0 THEN Sign(ra - rc)
        ELSE -CmpPos(b, ra, d, rc)

---------------------------------------------------------------------------
(* fractions.Fraction *)

(* Fraction(num, den): normalised to lowest terms *)
FractionOf(num, den) ==
    LET r == num % den
        g == GCD(den, r)
    IN  [ip |-> num \div den, fn |-> r \div g, fd |-> den \div g]

(* Fraction("<int>.<frac>") of a decimal literal with scale = 10^digits *)
FractionOfDecimal(int, frac, scale) ==
    LET g == GCD(scale, frac)
    IN  [ip |-> int, fn |-> frac \div g, fd |-> scale \div g]

(* whole + Fraction(num, den) for num >= 0 and den > 0 *)
FractionSum(whole, num, den) ==
    [ip |-> whole + num \div den,
     fn |-> (num % den) \div GCD(den, num % den),
     fd |-> den \div GCD(den, num % den)]

Numerator(f) == f.ip * f.fd + f.fn

Denominator(f) == f.fd

(* Fraction.numerator <= 0 *)
NonPositive(f) == f.ip < 0 \/ (f.ip = 0 /\ f.fn = 0)

(* sign of f - a/b for a Fraction f > 0 and b > 0 *)
FracCmp(f, a, b) ==
    IF a < 0 THEN 1
    ELSE IF f.ip # a \div b THEN Sign(f.ip - a \div b)
    ELSE CmpPos(f.fn, f.fd, a % b, b)

---------------------------------------------------------------------------
(* Frame-rate inputs (the _Framerate type): the tokens "ms" and "frames",  *)
(* a (numerator, denominator) pair or Fraction or int, a decimal literal.  *)

Token(t) == [kind |-> t, num |-> 0, den |-> 1, frac |-> 0, scale |-> 1]

Pair(n, d) == [kind |-> "pair", num |-> n, den |-> d, frac |-> 0, scale |-> 1]

Decimal(i, f, s) == [kind |-> "decimal", num |-> i, den |-> 1, frac |-> f, scale |-> s]

(* Timecode.framerate setter, the conversion of the input to a Fraction *)
new_fps(new_framerate) ==
    IF new_framerate.kind = "ms" THEN FractionOf(1000, 1)
    ELSE IF new_framerate.kind = "frames" THEN FractionOf(1, 1)
    ELSE IF new_framerate.kind = "pair"
         THEN FractionOf(new_framerate.num, new_framerate.den)
    ELSE FractionOfDecimal(new_framerate.num, new_framerate.frac, new_framerate.scale)

(* new_fps.numerator <= 0: ValueError("Invalid framerate (zero or negative).") *)
framerate_raises(new_framerate) == NonPositive(new_fps(new_framerate))

(* round(fps * 1001 / 1000): the integer k with |fps * 1001/1000 - k| <= 1/2, *)
(* the even one on a tie; fps * 1001/1000 ? k + 1/2 is fps ? (2k+1)*500/1001  *)
int_fps_of(fps) ==
    CHOOSE k \in fps.ip .. (fps.ip + 2 + (fps.ip + 1) \div 1000) :
        LET lo == FracCmp(fps, (2 * k - 1) * 500, 1001)
            hi == FracCmp(fps, (2 * k + 1) * 500, 1001)
        IN  /\ lo = 1 \/ (lo = 0 /\ k % 2 = 0)
            /\ hi = -1 \/ (hi = 0 /\ k % 2 = 0)

(* abs(fps - int_fps * 1000 / 1001) < 0.005, that is                         *)
(* (200000 k - 1001)/200200 < fps < (200000 k + 1001)/200200                 *)
within_ntsc_tolerance(fps, int_fps) ==
    /\ FracCmp(fps, 200000 * int_fps - 1001, 200200) = 1
    /\ FracCmp(fps, 200000 * int_fps + 1001, 200200) = -1

(* _check_ntsc_rate: the returned pair, given int_fps *)
ntsc_rate_pair(fps, int_fps) == <<within_ntsc_tolerance(fps, int_fps), int_fps>>

(* Timecode._check_ntsc_rate: <<is_ntsc, int_fps>> *)
check_ntsc_rate(fps) == ntsc_rate_pair(fps, int_fps_of(fps))

(* the setter without its canonicalisation step *)
canonical_fps_keeps_input(fps, is_ntsc, int_fps) == fps

(* "Fix ambiguous values like 23976/1000 or 23.98." *)
canonical_fps(fps, is_ntsc, int_fps) ==
    IF is_ntsc /\ Denominator(fps) # 1001
    THEN FractionOf(int_fps * 1000, 1001)
    ELSE fps

(* the setter's assignments without the clearing of drop_frame *)
assign_framerate_keeps_drop_frame(self, fps, ms, chk) ==
    [self EXCEPT
        !.ms_frame = ms,
        !.is_ntsc_rate = chk[1],
        !.int_framerate = chk[2],
        !.framerate = canonical_fps(fps, chk[1], chk[2])]

(* the framerate setter: the assignments, given new_fps, ms_frame and the    *)
(* pair <<_is_ntsc_rate, _int_framerate>>                                   *)
assign_framerate(self, fps, ms, chk) ==
    [self EXCEPT
        !.ms_frame = ms,
        !.is_ntsc_rate = chk[1],
        !.int_framerate = chk[2],
        !.drop_frame = IF self.drop_frame /\ (~chk[1] \/ chk[2] % 30 > 0)
                       THEN FALSE ELSE self.drop_frame,
        !.framerate = canonical_fps(fps, chk[1], chk[2])]

(* the framerate setter from new_fps on: ms_frame and the classification *)
classify_framerate(self, fps, ms) ==
    assign_framerate(self, fps, ms,
                     IF ~ms THEN check_ntsc_rate(fps) ELSE <<FALSE, fps.ip>>)

(* Timecode.framerate setter, for an input it does not reject *)
set_framerate(self, new_framerate) ==
    classify_framerate(self, new_fps(new_framerate),
                       new_fps(new_framerate) = FractionOf(1000, 1))

---------------------------------------------------------------------------
(* Text: decimal formatting and parsing *)

DigitChars == <<"0", "1", "2", "3", "4", "5", "6", "7", "8", "9">>

DigitChar(d) == DigitChars[d + 1]

DigitVal(c) == CHOOSE d \in 0 .. 9 : DigitChars[d + 1] = c

IsDigit(c) == \E d \in 0 .. 9 : DigitChars[d + 1] = c

(* str(n) for n >= 0 *)
RECURSIVE Str(_)
Str(n) == IF n < 10 THEN <<DigitChar(n)>> ELSE Str(n \div 10) \o <<DigitChar(n % 10)>>

(* "{:0<w>d}".format(n): zero-padded on the left to at least w characters *)
RECURSIVE ZFill(_, _)
ZFill(s, w) == IF Len(s) >= w THEN s ELSE ZFill(<<"0">> \o s, w)

Format0d(n, w) == ZFill(Str(n), w)

(* int(s) of a string of decimal digits *)
RECURSIVE ParseInt(_)
ParseInt(s) ==
    IF Len(s) = 1 THEN DigitVal(s[1])
    ELSE 10 * ParseInt(SubSeq(s, 1, Len(s) - 1)) + DigitVal(s[Len(s)])

(* int(s) raises ValueError unless s is a non-empty string of digits *)
IsNumber(s) == Len(s) > 0 /\ \A i \in 1 .. Len(s) : IsDigit(s[i])

RECURSIVE Pow10(_)
Pow10(n) == IF n = 0 THEN 1 ELSE 10 * Pow10(n - 1)

(* s.split(sep) for a set of separator characters: the list of fields *)
RECURSIVE Split(_, _)
Split(s, seps) ==
    IF \A i \in 1 .. Len(s) : s[i] \notin seps THEN <<s>>
    ELSE LET i == CHOOSE j \in 1 .. Len(s) :
                      s[j] \in seps /\ \A k \in 1 .. j - 1 : s[k] \notin seps
         IN  <<SubSeq(s, 1, i - 1)>> \o Split(SubSeq(s, i + 1, Len(s)), seps)

---------------------------------------------------------------------------
(* The codec *)

(* Timecode.frame_delimiter *)
frame_delimiter(self) ==
    IF self.drop_frame THEN ";"
    ELSE IF self.ms_frame \/ self.fraction_frame THEN "."
    ELSE ":"

(* round(self.framerate, 2), in hundredths *)
round_framerate_2(self) ==
    RoundHalfEven(Numerator(self.framerate) * 100, Denominator(self.framerate))

(* frames_to_tc: ffps in hundredths, round(framerate, 2) or the integer rate *)
ffps_of(self) ==
    IF self.drop_frame THEN round_framerate_2(self) ELSE self.int_framerate * 100

(* frames_to_tc: round(ffps * 0.066666) with 0.066666 = 33333/500000 *)
drop_frames_of_ffps(self) ==
    IF self.drop_frame THEN RoundHalfEven(ffps_of(self) * 33333, 50000000) ELSE 0

(* frames_to_tc: round(ffps * 60 * 10); ffps has two decimals, so it is exact *)
frames_per_10_minutes(self) == RoundHalfEven(ffps_of(self) * 600, 100)

(* frames_to_tc: round(ffps * 60 * 60 * 24) = ffps in hundredths * 864 *)
frames_per_24_hours(self) == ffps_of(self) * 864

(* frames_to_tc: int(self._int_framerate * 60) - drop_frames *)
frames_per_minute(self) == self.int_framerate * 60 - drop_frames_of_ffps(self)

(* frames_to_tc without the 24-hour rollover *)
rolled_over_never(self, frames, skip_rollover) == frames - 1

(* frames_to_tc: the 0-based frame number after the rollover *)
rolled_over(self, frames, skip_rollover) ==
    IF ~skip_rollover THEN (frames - 1) % frames_per_24_hours(self) ELSE frames - 1

(* no compensation: the labels count every frame number *)
drop_adjusted_never(self, frame_number) == frame_number

(* the compensation dropping frame numbers at every minute, the tenth too *)
drop_adjusted_every_minute(self, frame_number) ==
    IF self.drop_frame
    THEN LET drop_frames == drop_frames_of_ffps(self)
             d == frame_number \div frames_per_10_minutes(self)
             m == frame_number % frames_per_10_minutes(self)
         IN  IF m > drop_frames
             THEN frame_number + (drop_frames * 10 * d)
                    + drop_frames * ((m - drop_frames) \div frames_per_minute(self))
             ELSE frame_number + drop_frames * 10 * d
    ELSE frame_number

(* the compensation applied from the first frame of the minute's count *)
drop_adjusted_early(self, frame_number) ==
    IF self.drop_frame
    THEN LET drop_frames == drop_frames_of_ffps(self)
             d == frame_number \div frames_per_10_minutes(self)
             m == frame_number % frames_per_10_minutes(self)
         IN  frame_number + (drop_frames * 9 * d)
               + drop_frames * (m \div frames_per_minute(self))
    ELSE frame_number

(* frames_to_tc: the drop-frame compensation of the frame number *)
drop_adjusted(self, frame_number) ==
    IF self.drop_frame
    THEN LET drop_frames == drop_frames_of_ffps(self)
             d == frame_number \div frames_per_10_minutes(self)
             m == frame_number % frames_per_10_minutes(self)
         IN  IF m > drop_frames
             THEN frame_number + (drop_frames * 9 * d)
                    + drop_frames * ((m - drop_frames) \div frames_per_minute(self))
             ELSE frame_number + drop_frames * 9 * d
    ELSE frame_number

(* Timecode.frames_to_tc: <<hrs, mins, secs, frs>>; with fraction_frame the  *)
(* fourth field is round(frs / ifps, 3), kept in thousandths                 *)
frames_to_tc(self, frames, skip_rollover) ==
    LET frame_number == drop_adjusted(self, rolled_over(self, frames, skip_rollover))
        ifps == self.int_framerate
        frs == IF self.fraction_frame
               THEN RoundHalfEven((frame_number % ifps) * 1000, ifps)
               ELSE frame_number % ifps
        secs == (frame_number \div ifps) % 60
        mins == ((frame_number \div ifps) \div 60) % 60
        hrs == ((frame_number \div ifps) \div 60) \div 60
    IN  <<hrs, mins, secs, frs>>

(* Timecode.tc_to_string *)
tc_to_string(self, hrs, mins, secs, frs) ==
    IF self.fraction_frame
    THEN Format0d(hrs, 2) \o <<":">> \o Format0d(mins, 2) \o <<":">>
           \o Format0d((secs * 1000 + frs) \div 1000, 2) \o <<".">>
           \o Format0d((secs * 1000 + frs) % 1000, 3)
    ELSE Format0d(hrs, 2) \o <<":">> \o Format0d(mins, 2) \o <<":">>
           \o Format0d(secs, 2) \o <<frame_delimiter(self)>>
           \o Format0d(frs, IF self.ms_frame THEN 3 ELSE 2)

(* Timecode.__str__ *)
str(self) ==
    LET t == frames_to_tc(self, self.frames, FALSE)
    IN  tc_to_string(self, t[1], t[2], t[3], t[4])

(* Timecode.parse_timecode of a str: the fields between ':', ';' and '.' *)
parse_fields(timecode) == Split(timecode, {":", ";", "."})

(* parse_timecode raises IndexError or ValueError *)
parse_raises(timecode) ==
    LET bfr == parse_fields(timecode)
    IN  Len(bfr) < 4 \/ \E i \in 1 .. 4 : ~IsNumber(bfr[i])

(* Timecode.parse_timecode: <<hrs, mins, secs, frs>> *)
parse_timecode(timecode) ==
    LET bfr == parse_fields(timecode)
    IN  <<ParseInt(bfr[1]), ParseInt(bfr[2]), ParseInt(bfr[3]), ParseInt(bfr[4])>>

(* tc_to_frames: len(timecode.split(".")) == 2 and not self.ms_frame *)
is_fraction_timecode(self, timecode) ==
    Len(Split(timecode, {"."})) = 2 /\ ~self.ms_frame

(* tc_to_frames: round(self.framerate * 0.066666) if self.drop_frame else 0 *)
drop_frames_of(self) ==
    IF self.drop_frame
    THEN RoundHalfEven(Numerator(self.framerate) * 33333,
                       Denominator(self.framerate) * 500000)
    ELSE 0

(* tc_to_frames: round(float("." + fraction) * float(self.framerate)) *)
fraction_to_frames(self, timecode) ==
    LET fraction == Split(timecode, {"."})[2]
    IN  RoundHalfEven(ParseInt(fraction) * Numerator(self.framerate),
                      Pow10(Len(fraction)) * Denominator(self.framerate))

(* Timecode.tc_to_frames of a str: the returned frame count *)
tc_to_frames(self, timecode) ==
    LET t == parse_timecode(timecode)
        hours == t[1]
        minutes == t[2]
        seconds == t[3]
        ifps == self.int_framerate
        hour_frames == ifps * 60 * 60
        minute_frames == ifps * 60
        total_minutes == (60 * hours) + minutes
        frames == IF is_fraction_timecode(self, timecode)
                  THEN fraction_to_frames(self, timecode)
                  ELSE t[4]
        frame_number == ((hour_frames * hours) + (minute_frames * minutes)
                           + (ifps * seconds) + frames)
                        - (drop_frames_of(self)
                             * (total_minutes - (total_minutes \div 10)))
    IN  frame_number + 1

(* Timecode.tc_to_frames of a str: the instance afterwards *)
after_tc_to_frames(self, timecode) ==
    IF is_fraction_timecode(self, timecode)
    THEN [self EXCEPT !.fraction_frame = TRUE]
    ELSE self

---------------------------------------------------------------------------
(* Construction, frame count, arithmetic, timestamps *)

(* the frames setter rejecting negative counts only *)
frames_raises_below_zero(frames) == frames < 0

(* Timecode.frames setter: ValueError for frames <= 0 *)
frames_raises(frames) == frames <= 0

(* int(a / b) for b # 0: the quotient truncated towards zero (the float     *)
(* quotient is exact to well beyond the frame counts of the model)          *)
int_div(a, b) == Sign(a) * Sign(b) * (Abs(a) \div Abs(b))

(* Timecode.__init__: the drop_frame and reference_time_on_display          *)
(* assignments that follow the assignment of the framerate                  *)
init_flags(rated, force_non_drop_frame, reference_time_on_display) ==
    [rated EXCEPT
        !.drop_frame = IF ~force_non_drop_frame /\ rated.int_framerate % 30 = 0
                       THEN rated.is_ntsc_rate ELSE FALSE,
        !.reference_time_on_display = reference_time_on_display]

(* Timecode.__init__ up to the dispatch of the start value; frames = 0      *)
(* stands for the attribute not being set yet                               *)
init_props(framerate, force_non_drop_frame, reference_time_on_display) ==
    init_flags(
        set_framerate([framerate |-> FractionOf(0, 1), is_ntsc_rate |-> FALSE,
                       int_framerate |-> 0, ms_frame |-> FALSE, drop_frame |-> FALSE,
                       fraction_frame |-> FALSE, usec_timestamps |-> FALSE,
                       reference_time_on_display |-> FALSE, frames |-> 0],
                      framerate),
        force_non_drop_frame, reference_time_on_display)

(* Start values of the constructor: none, frames=<n> or start_timecode=<str> *)
NoStart == [kind |-> "none", frames |-> 0, timecode |-> <<>>]

StartFrames(n) == [kind |-> "frames", frames |-> n, timecode |-> <<>>]

StartTimecode(t) == [kind |-> "timecode", frames |-> 0, timecode |-> t]

DefaultTimecode == <<"0", "0", ":", "0", "0", ":", "0", "0", ":", "0", "0">>

(* Timecode._dispatch_set_frames and the default: the frame count assigned *)
dispatch_frames(self, start) ==
    IF start.kind = "timecode" THEN tc_to_frames(self, start.timecode)
    ELSE IF start.kind = "frames" THEN start.frames
    ELSE tc_to_frames(self, DefaultTimecode)

(* Timecode.__init__ raises *)
new_raises(framerate, start, force_non_drop_frame, reference_time_on_display) ==
    \/ framerate_raises(framerate)
    \/ start.kind = "timecode" /\ parse_raises(start.timecode)
    \/ frames_raises(dispatch_frames(
           init_props(framerate, force_non_drop_frame, reference_time_on_display),
           start))

(* Timecode.__init__ from the dispatch of the start value on *)
set_start(self, start) ==
    [(IF start.kind = "timecode"
      THEN after_tc_to_frames(self, start.timecode)
      ELSE self) EXCEPT !.frames = dispatch_frames(self, start)]

(* Timecode.__init__ *)
Timecode(framerate, start, force_non_drop_frame, reference_time_on_display) ==
    set_start(init_props(framerate, force_non_drop_frame, reference_time_on_display),
              start)

(* the stored Fraction handed back to the constructor: Timecode(self.framerate, ...) *)
own_rate(self) == Pair(Numerator(self.framerate), Denominator(self.framerate))

(* Timecode._copy_props_from *)
copy_props_from(self, other) ==
    [self EXCEPT !.drop_frame = other.drop_frame,
                 !.fraction_frame = other.fraction_frame,
                 !.usec_timestamps = other.usec_timestamps,
                 !.reference_time_on_display = other.reference_time_on_display]

(* Operands of the arithmetic operators: a Timecode or an int *)
TimecodeOperand(t) == [kind |-> "Timecode", frames |-> t.frames, obj |-> t]

IntOperand(k) == [kind |-> "int", frames |-> k, obj |-> <<>>]

(* a str argument of set_timecode, tc_to_frames and the comparisons *)
StrOperand(s) == [kind |-> "str", frames |-> 0, obj |-> s]

(* Timecode.tc_to_frames of a Timecode instance or a str *)
tc_to_frames_of(self, timecode) ==
    IF timecode.kind = "Timecode" THEN timecode.frames
    ELSE tc_to_frames(self, timecode.obj)

(* Timecode.tc_to_frames raises (parse_timecode's IndexError / ValueError) *)
tc_to_frames_raises(self, timecode) ==
    timecode.kind = "str" /\ parse_raises(timecode.obj)

(* the instance after tc_to_frames returned *)
after_tc_to_frames_of(self, timecode) ==
    IF timecode.kind = "str" THEN after_tc_to_frames(self, timecode.obj) ELSE self

(* Timecode.div_frames raises: ZeroDivisionError, or the setter's ValueError *)
div_frames_raises(self, frames) ==
    frames = 0 \/ frames_raises(int_div(self.frames, frames))

(* Timecode.__add__ raises: add_frames on the copy assigns frames <= 0 *)
add_raises(self, other) == frames_raises(self.frames + other.frames)

(* Timecode.__add__ *)
add(self, other) ==
    [copy_props_from(
                   Timecode(own_rate(self), StartFrames(self.frames), FALSE, FALSE),
                   self)
        EXCEPT !.frames = @ + other.frames]

(* __sub__ without the abs() *)
subtracted_frames_signed(self, other) == self.frames - other.frames

(* Timecode.__sub__: abs(subtracted_frames) *)
subtracted_frames(self, other) == Abs(self.frames - other.frames)

(* Timecode.__sub__ raises: the constructor rejects frames=0 *)
sub_raises(self, other) == frames_raises(subtracted_frames(self, other))

(* Timecode.__sub__ *)
sub(self, other) ==
    copy_props_from(
        Timecode(own_rate(self), StartFrames(subtracted_frames(self, other)),
                 FALSE, FALSE),
        self)

(* Timecode.__mul__ raises: the constructor rejects frames <= 0 *)
mul_raises(self, other) == frames_raises(self.frames * other.frames)

(* Timecode.__mul__ *)
mul(self, other) ==
    copy_props_from(
        Timecode(own_rate(self), StartFrames(self.frames * other.frames),
                 FALSE, FALSE),
        self)

(* Timecode.__div__ raises: ZeroDivisionError, or the constructor rejects   *)
(* frames <= 0                                                              *)
div_raises(self, other) ==
    other.frames = 0 \/ frames_raises(int_div(self.frames, other.frames))

(* Timecode.__div__, __truediv__ *)
div(self, other) ==
    copy_props_from(
        Timecode(own_rate(self), StartFrames(int_div(self.frames, other.frames)),
                 FALSE, FALSE),
        self)

(* to_realtime without the display-reference offset *)
to_realtime_without_offset(self) ==
    FractionOf(self.frames * Denominator(self.framerate), Numerator(self.framerate))

(* Fraction(frames, framerate) for frames >= 0, formed from the quotient and *)
(* the remainder of frames by the numerator of the rate                     *)
frames_over_rate(frames, framerate) ==
    FractionSum((frames \div Numerator(framerate)) * Denominator(framerate),
                (frames % Numerator(framerate)) * Denominator(framerate),
                Numerator(framerate))

(* Timecode.to_realtime: the exact timestamp, a Fraction of seconds *)
to_realtime(self) ==
    frames_over_rate(
        self.frames - (IF self.reference_time_on_display THEN 1 ELSE 0),
        self.framerate)

---------------------------------------------------------------------------
(* Bounds and inputs *)

(* largest frame count of the instance in the object-level runs *)
MaxFrames == 4

(* frame counts of the documented examples (10 + 5, 5 - 10) *)
ExampleFrames == { 5, 10 }

RateInputs ==
    { Token("ms"), Token("frames"),
      Decimal(23, 976, 1000), Decimal(23, 98, 100),
      Decimal(23, 976023976, 1000000000),
      Pair(24000, 1001), Pair(24000, 1000), Pair(24001, 1001),
      Pair(24, 1), Pair(25, 1), Decimal(29, 97, 100), Pair(30000, 1001),
      Pair(30005, 1001), Pair(30, 1), Pair(50, 1), Decimal(59, 94, 100),
      Pair(60, 1), Decimal(999, 999, 1000), Pair(0, 1), Pair(-30, 1) }

StartInputs ==
    { NoStart, StartTimecode(<<"0", "0", ":", "0", "0", ":", "0", "0", ";", "0", "2">>) }
        \cup { StartFrames(n) : n \in (0 .. MaxFrames) \cup ExampleFrames }

(* right-hand operands of + and - *)
OperandInstances ==
    { Timecode(c[1], StartFrames(n), FALSE, c[2]) :
        c \in { <<Pair(30, 1), FALSE>>, <<Decimal(29, 97, 100), TRUE>> },
        n \in { 1, MaxFrames } \cup ExampleFrames }

Operands ==
    { TimecodeOperand([t EXCEPT !.fraction_frame = f, !.usec_timestamps = f]) :
        t \in OperandInstances, f \in BOOLEAN }
        \cup { IntOperand(k) : k \in (0 - MaxFrames) .. MaxFrames }

NoCall == [op |-> "none"]

---------------------------------------------------------------------------
(* The object-level state machine: one instance, its setters, its in-place  *)
(* mutators, and the operators and projections called on it                 *)

(* The last call constructed or changed the instance.  A call that leaves   *)
(* the instance alone only overwrites ret, so every pair of an instance     *)
(* state and a call on it is reached by issuing calls from these states.    *)
Changed ==
    ret.op \in { "__init__", "framerate", "set_fractional", "add_frames",
                 "next", "back", "sub_frames", "mult_frames", "div_frames",
                 "frames", "set_timecode", "tc_to_frames" }

Init ==
    /\ \E r \in RateInputs, s \in StartInputs, f \in BOOLEAN, d \in BOOLEAN :
          /\ ~new_raises(r, s, f, d)
          /\ tc = Timecode(r, s, f, d)
          /\ ret = [op |-> "__init__", framerate |-> r, start |-> s,
                    force_non_drop_frame |-> f, reference_time_on_display |-> d]
    /\ hist = NoCall

(* tc.framerate = r *)
SetFramerate ==
    /\ Changed
    /\ \E r \in RateInputs :
          /\ tc' = IF framerate_raises(r) THEN tc ELSE set_framerate(tc, r)
          /\ ret' = [op |-> "framerate", framerate |-> r,
                     raised |-> framerate_raises(r)]
    /\ UNCHANGED hist

(* tc.set_fractional(state) *)
SetFractional ==
    /\ Changed
    /\ \E state \in BOOLEAN :
          /\ tc' = [tc EXCEPT !.fraction_frame = state]
          /\ ret' = [op |-> "set_fractional", state |-> state]
    /\ UNCHANGED hist

(* tc.add_frames(frames), tc.next() (frames = 1), tc.back() (frames = -1) *)
AddFrames ==
    /\ Changed
    /\ \E frames \in (0 - MaxFrames) .. MaxFrames :
          /\ tc.frames + frames <= MaxFrames
          /\ tc' = IF frames_raises(tc.frames + frames) THEN tc
                   ELSE [tc EXCEPT !.frames = tc.frames + frames]
          /\ ret' = [op |-> "add_frames", frames |-> frames,
                     raised |-> frames_raises(tc.frames + frames)]
    /\ UNCHANGED hist

(* str(tc) *)
StrCall ==
    /\ Changed
    /\ ret' = [op |-> "__str__", value |-> str(tc)]
    /\ UNCHANGED <<tc, hist>>

(* tc.to_realtime() *)
ToRealtime ==
    /\ Changed
    /\ ret' = [op |-> "to_realtime", value |-> to_realtime(tc)]
    /\ UNCHANGED <<tc, hist>>

(* tc + other *)
Add ==
    /\ Changed
    /\ \E other \in Operands :
          ret' = [op |-> "__add__", other |-> other,
                  raised |-> add_raises(tc, other),
                  value |-> IF add_raises(tc, other) THEN <<>> ELSE add(tc, other)]
    /\ UNCHANGED <<tc, hist>>

(* tc - other *)
Sub ==
    /\ Changed
    /\ \E other \in Operands :
          ret' = [op |-> "__sub__", other |-> other,
                  raised |-> sub_raises(tc, other),
                  value |-> IF sub_raises(tc, other) THEN <<>> ELSE sub(tc, other)]
    /\ UNCHANGED <<tc, hist>>

(* tc * other *)
Mul ==
    /\ Changed
    /\ \E other \in Operands :
          ret' = [op |-> "__mul__", other |-> other,
                  raised |-> mul_raises(tc, other),
                  value |-> IF mul_raises(tc, other) THEN <<>> ELSE mul(tc, other)]
    /\ UNCHANGED <<tc, hist>>

(* tc / other *)
Div ==
    /\ Changed
    /\ \E other \in Operands :
          ret' = [op |-> "__div__", other |-> other,
                  raised |-> div_raises(tc, other),
                  value |-> IF div_raises(tc, other) THEN <<>> ELSE div(tc, other)]
    /\ UNCHANGED <<tc, hist>>

Next ==
    \/ SetFramerate
    \/ SetFractional
    \/ AddFrames
    \/ StrCall
    \/ ToRealtime
    \/ Add
    \/ Sub

Spec == Init /\ [][Next]_vars

(* The drop-frame runs: every rate, with and without force_non_drop_frame,  *)
(* reassignments of the rate, and the four arithmetic operators; hist keeps *)
(* the arguments the instance was constructed with                          *)
DropFrameInit ==
    /\ \E r \in RateInputs, f \in BOOLEAN :
          /\ ~new_raises(r, NoStart, f, FALSE)
          /\ tc = Timecode(r, NoStart, f, FALSE)
          /\ ret = [op |-> "__init__", framerate |-> r, start |-> NoStart,
                    force_non_drop_frame |-> f, reference_time_on_display |-> FALSE]
    /\ hist = ret

DropFrameNext ==
    \/ SetFramerate
    \/ Add
    \/ Sub
    \/ Mul
    \/ Div

SpecDropFrame == DropFrameInit /\ [][DropFrameNext]_vars

---------------------------------------------------------------------------
(* Claims on the rate classification *)

TheRate(n, d) == FractionOf(n, d)

RateWasAssigned(r) ==
    \/ ret.op = "__init__" /\ ret.framerate = r
    \/ ret.op = "framerate" /\ ret.framerate = r /\ ~ret.raised

(* C5: the framerate given as the decimal 23.976, as the rational 24000/1001 *)
(* or as the decimal 23.976023976 is stored as 24000/1001, classified NTSC,  *)
(* with nominal integer rate 24.                                             *)
C5_NtscCanonicalization ==
    \A r \in { Decimal(23, 976, 1000), Pair(24000, 1001),
               Decimal(23, 976023976, 1000000000) } :
        RateWasAssigned(r) =>
            /\ Numerator(tc.framerate) = 24000
            /\ Denominator(tc.framerate) = 1001
            /\ tc.is_ntsc_rate
            /\ tc.int_framerate = 24

C5_Witness ==
    /\ ret.op = "framerate"
    /\ ret.framerate = Decimal(23, 976023976, 1000000000)
    /\ tc.framerate = TheRate(24000, 1001)
    /\ tc.int_framerate = 24

(* C6: whenever the instance is classified NTSC, the stored rate is exactly  *)
(* nominal_integer_rate * 1000/1001, whatever numerator and denominator the  *)
(* caller supplied.                                                          *)
C6_CanonicalRateInvariant ==
    tc.is_ntsc_rate => tc.framerate = TheRate(tc.int_framerate * 1000, 1001)

(* C7: the framerate "frames" stores the exact rate 1/1 with nominal integer *)
(* rate 1; "ms" stores the exact rate 1000/1 with the millisecond flag set   *)
(* and is_ntsc false.                                                        *)
C7_LiteralRateTokens ==
    /\ RateWasAssigned(Token("frames")) =>
          tc.framerate = TheRate(1, 1) /\ tc.int_framerate = 1
    /\ RateWasAssigned(Token("ms")) =>
          tc.framerate = TheRate(1000, 1) /\ tc.ms_frame /\ ~tc.is_ntsc_rate

---------------------------------------------------------------------------
(* Claims on the timestamps and the arithmetic *)

(* value = (frames - delay) / framerate, by cross-multiplication *)
IsFramesOverRate(value, frames, delay, framerate) ==
    Numerator(value) * Numerator(framerate)
        = (frames - delay) * Denominator(framerate) * Denominator(value)

(* C8 as stated: to_realtime is frames/rate minus 0 when the display         *)
(* reference is true and minus 1/rate when it is false.                      *)
C8_RealTimeAsStated ==
    ret.op = "to_realtime" =>
        IsFramesOverRate(ret.value, tc.frames,
                         IF tc.reference_time_on_display THEN 0 ELSE 1,
                         tc.framerate)

(* C8 amended: to_realtime is frames/rate minus 1/rate when the display      *)
(* reference is true and minus 0 when it is false; at 29.97 with the display *)
(* reference true, frame 1 has real time 0.                                  *)
C8_RealTime ==
    ret.op = "to_realtime" =>
        /\ IsFramesOverRate(ret.value, tc.frames,
                            IF tc.reference_time_on_display THEN 1 ELSE 0,
                            tc.framerate)
        /\ (tc.framerate = TheRate(30000, 1001) /\ tc.frames = 1
              /\ tc.reference_time_on_display) => ret.value = TheRate(0, 1)

C8_Witness ==
    /\ ret.op = "to_realtime"
    /\ tc.framerate = TheRate(30000, 1001)
    /\ tc.frames = 1
    /\ tc.reference_time_on_display
    /\ ret.value = TheRate(0, 1)

SameRateOperand(other) ==
    other.kind = "Timecode" => other.obj.framerate = tc.framerate

(* C9 as stated: a - b never fails and returns a value with frame count      *)
(* |a.frames - b| >= 1.                                                      *)
C9_SubtractionAsStated ==
    (ret.op = "__sub__" /\ SameRateOperand(ret.other)) =>
        /\ ~ret.raised
        /\ ret.value.frames = Abs(tc.frames - ret.other.frames)
        /\ ret.value.frames >= 1

(* C9 amended: a - b fails with the frame-count error exactly when the frame *)
(* counts are equal; otherwise it returns a value with frame count           *)
(* |a.frames - b| >= 1.                                                      *)
C9_Subtraction ==
    (ret.op = "__sub__" /\ SameRateOperand(ret.other)) =>
        /\ ret.raised <=> (tc.frames = ret.other.frames)
        /\ ~ret.raised =>
              /\ ret.value.frames = Abs(tc.frames - ret.other.frames)
              /\ ret.value.frames >= 1

C9_Witness ==
    /\ ret.op = "__sub__"
    /\ ret.other.kind = "Timecode"
    /\ SameRateOperand(ret.other)
    /\ tc.frames = 5
    /\ ret.other.frames = 10
    /\ ~ret.raised
    /\ ret.value.frames = 5

(* C10: a + b has frames a.frames + b.frames, and the rate, the rate         *)
(* classification and the display flags of the left operand a.               *)
C10_AdditionResult ==
    (ret.op = "__add__" /\ ret.other.kind = "Timecode") =>
        /\ ~ret.raised
        /\ ret.value.frames = tc.frames + ret.other.frames
        /\ ret.value.framerate = tc.framerate
        /\ ret.value.is_ntsc_rate = tc.is_ntsc_rate
        /\ ret.value.int_framerate = tc.int_framerate
        /\ ret.value.ms_frame = tc.ms_frame
        /\ ret.value.drop_frame = tc.drop_frame
        /\ ret.value.fraction_frame = tc.fraction_frame
        /\ ret.value.reference_time_on_display = tc.reference_time_on_display
        /\ ret.value.usec_timestamps = tc.usec_timestamps

---------------------------------------------------------------------------
(* The codec runs: an instance of a fixed rate and flags at a frame count    *)
(* near a minute mark is rendered, advanced by a frame or by a day, rendered *)
(* again, and the rendered text is decoded on the same instance              *)

(* frames taken on each side of a minute mark *)
Window == 2

MinutesPerDay == 24 * 60

CodecConfigs ==
    { Timecode(c[1], NoStart, c[2], FALSE) :
        c \in { <<Pair(30, 1), FALSE>>,
                <<Decimal(29, 97, 100), FALSE>>,
                <<Decimal(29, 97, 100), TRUE>>,
                <<Decimal(23, 976, 1000), FALSE>>,
                <<Decimal(59, 94, 100), FALSE>>,
                <<Pair(30005, 1001), FALSE>>,
                <<Token("ms"), FALSE>> } }

(* the 0-based frame number that opens minute t of the day *)
MinuteStart(self, t) ==
    (t \div 10) * frames_per_10_minutes(self)
        + (IF t % 10 = 0 THEN 0
           ELSE (t % 10) * frames_per_minute(self) + drop_frames_of_ffps(self))

(* every minute mark of a drop-frame day, every tenth one otherwise *)
MinuteMarks(self) ==
    IF self.drop_frame
    THEN 0 .. MinutesPerDay
    ELSE { 10 * k : k \in 0 .. (MinutesPerDay \div 10) }

CodecFrames(self) ==
    { n \in { MinuteStart(self, t) + 1 + o :
                t \in MinuteMarks(self), o \in (0 - Window) .. Window } : n >= 1 }

Literals == { <<"2", "3", ":", "5", "9", ":", "5", "9", ":", "2", "9">> }

Rendering(self) ==
    [op |-> "__str__", frames |-> self.frames,
     tuple |-> frames_to_tc(self, self.frames, FALSE), value |-> str(self)]

CodecInit ==
    /\ \E c \in CodecConfigs : \E n \in CodecFrames(c) :
          tc = [c EXCEPT !.frames = n]
    /\ ret = [op |-> "frames", frames |-> tc.frames]
    /\ hist = NoCall

(* str(tc), after the assignment of the frame count or after an advance *)
Render ==
    /\ \/ ret.op = "frames"
       \/ ret.op \in { "__str__", "set_timecode" } /\ tc.frames # ret.frames
    /\ ret' = Rendering(tc)
    /\ hist' = ret
    /\ UNCHANGED tc

(* tc.set_timecode(literal) *)
SetTimecode ==
    /\ ret.op = "frames"
    /\ tc.frames = 1
    /\ \E t \in Literals :
          /\ ~frames_raises(tc_to_frames(tc, t))
          /\ tc' = [after_tc_to_frames(tc, t) EXCEPT !.frames = tc_to_frames(tc, t)]
          /\ ret' = [op |-> "set_timecode", timecode |-> t,
                     frames |-> tc_to_frames(tc, t)]
    /\ hist' = ret

(* tc.next() *)
Advance ==
    /\ ret.op \in { "__str__", "set_timecode" }
    /\ hist.op = "frames"
    /\ tc.frames = ret.frames
    /\ tc' = [tc EXCEPT !.frames = tc.frames + 1]
    /\ UNCHANGED <<ret, hist>>

(* tc.add_frames(k) with k the number of frames of 24 hours *)
AdvanceDay ==
    /\ ret.op = "__str__"
    /\ hist.op = "frames"
    /\ tc.frames = ret.frames
    /\ tc' = [tc EXCEPT !.frames = tc.frames + frames_per_24_hours(tc)]
    /\ UNCHANGED <<ret, hist>>

(* tc.tc_to_frames(text) of the text just rendered *)
Decode ==
    /\ ret.op = "__str__"
    /\ tc.frames = ret.frames
    /\ tc' = IF parse_raises(ret.value) THEN tc ELSE after_tc_to_frames(tc, ret.value)
    /\ ret' = [op |-> "tc_to_frames", timecode |-> ret.value,
               raised |-> parse_raises(ret.value),
               value |-> IF parse_raises(ret.value) THEN 0
                         ELSE tc_to_frames(tc, ret.value)]
    /\ hist' = ret

CodecNext ==
    \/ Render
    \/ SetTimecode
    \/ Advance
    \/ AdvanceDay
    \/ Decode

SpecCodec == CodecInit /\ [][CodecNext]_vars

---------------------------------------------------------------------------
(* Claims on the codec *)

NonDrop30(self) ==
    self.framerate = TheRate(30, 1) /\ ~self.drop_frame /\ ~self.fraction_frame

Drop2997(self) ==
    self.framerate = TheRate(30000, 1001) /\ self.drop_frame /\ ~self.fraction_frame

NonDrop2997(self) ==
    self.framerate = TheRate(30000, 1001) /\ ~self.drop_frame /\ ~self.fraction_frame

(* the frame count of 24 hours: round(effective_rate * 86400) *)
FramesPerDay(self) == IF Drop2997(self) THEN 2589408 ELSE self.int_framerate * 86400

(* C1: at rate 30 non-drop, at 29.97 drop-frame and at 29.97 forced to       *)
(* non-drop, a frame count n with 1 <= n <= frames_per_24h that is rendered  *)
(* and decoded on the same instance comes back as n.                         *)
C1_RoundTrip ==
    (/\ ret.op = "tc_to_frames"
     /\ hist.op = "__str__"
     /\ NonDrop30(tc) \/ Drop2997(tc) \/ NonDrop2997(tc)
     /\ hist.frames >= 1
     /\ hist.frames <= FramesPerDay(tc))
        => ~ret.raised /\ ret.timecode = hist.value /\ ret.value = hist.frames

C1_Witness ==
    /\ ret.op = "tc_to_frames"
    /\ hist.op = "__str__"
    /\ Drop2997(tc)
    /\ hist.value = <<"0", "0", ":", "1", "0", ":", "0", "0", ";", "0", "0">>
    /\ hist.frames = 17983
    /\ ret.value = 17983

(* the minute of the day after the one of a rendered tuple *)
NextMinute(t) == (t[1] * 60 + t[2] + 1) % MinutesPerDay

(* C2: at 29.97 drop-frame the frame after the one labelled HH:MM:59;29 is   *)
(* labelled with the next minute and frame field ;02 when that minute is not *)
(* a multiple of 10 and ;00 when it is; the labels ;00 and ;01 of second 00  *)
(* of a minute that is not a multiple of 10 are never produced.              *)
C2_DropFrameSkipLaw ==
    (ret.op = "__str__" /\ Drop2997(tc)) =>
        /\ (ret.tuple[3] = 0 /\ ret.tuple[2] % 10 # 0) => ret.tuple[4] >= 2
        /\ (/\ hist.op = "__str__"
            /\ ret.frames = hist.frames + 1
            /\ hist.tuple[3] = 59
            /\ hist.tuple[4] = 29)
              => LET t == NextMinute(hist.tuple)
                     ff == IF t % 10 = 0 THEN 0 ELSE 2
                 IN  /\ ret.tuple = <<t \div 60, t % 60, 0, ff>>
                     /\ ret.value = Format0d(t \div 60, 2) \o <<":">>
                                      \o Format0d(t % 60, 2)
                                      \o <<":", "0", "0", ";", "0", DigitChar(ff)>>

C2_Witness ==
    /\ ret.op = "__str__"
    /\ hist.op = "__str__"
    /\ Drop2997(tc)
    /\ ret.frames = hist.frames + 1
    /\ hist.value = <<"0", "0", ":", "0", "0", ":", "5", "9", ";", "2", "9">>
    /\ ret.value = <<"0", "0", ":", "0", "1", ":", "0", "0", ";", "0", "2">>

(* lexicographic order of two <<hrs, mins, secs, frs>> tuples *)
TupleLess(a, b) ==
    \E i \in 1 .. 4 : a[i] < b[i] /\ \A j \in 1 .. i - 1 : a[j] = b[j]

(* C3: for any fixed rate and flags the tuple returned by frames_to_tc is    *)
(* strictly increasing in lexicographic order while the 0-based frame index  *)
(* runs from 0 to frames_per_24h - 1.                                        *)
C3_Monotonic ==
    (/\ ret.op = "__str__"
     /\ hist.op = "__str__"
     /\ ret.frames = hist.frames + 1
     /\ ret.frames <= frames_per_24_hours(tc))
        => TupleLess(hist.tuple, ret.tuple)

(* C4: frame counts n and n + frames_per_24h render to the same timecode; at *)
(* 30 fps non-drop the value decoded from "23:59:59:29", advanced by one     *)
(* frame, renders as "00:00:00:00".                                          *)
C4_Rollover ==
    /\ (/\ ret.op = "__str__"
        /\ hist.op = "__str__"
        /\ ret.frames = hist.frames + FramesPerDay(tc)
        /\ NonDrop30(tc) \/ Drop2997(tc) \/ NonDrop2997(tc))
          => ret.value = hist.value /\ ret.tuple = hist.tuple
    /\ (/\ ret.op = "__str__"
        /\ hist.op = "set_timecode"
        /\ hist.timecode = <<"2", "3", ":", "5", "9", ":", "5", "9", ":", "2", "9">>
        /\ ret.frames = hist.frames + 1
        /\ NonDrop30(tc))
          => ret.value = <<"0", "0", ":", "0", "0", ":", "0", "0", ":", "0", "0">>

C4_Witness ==
    /\ ret.op = "__str__"
    /\ hist.op = "set_timecode"
    /\ NonDrop30(tc)
    /\ hist.frames = 2592000
    /\ ret.frames = 2592001
    /\ ret.value = <<"0", "0", ":", "0", "0", ":", "0", "0", ":", "0", "0">>

---------------------------------------------------------------------------
(* The in-place mutators: one instance and every call that assigns its      *)
(* frame count                                                              *)

MutatorRates == { Pair(30, 1), Decimal(29, 97, 100), Pair(24, 1), Token("ms") }

(* arguments of set_timecode: strings with each separator, a string with    *)
(* too few fields, and Timecode instances                                   *)
TimecodeArguments ==
    { StrOperand(<<"0", "0", ":", "0", "0", ":", "0", "0", ":", "0", "0">>),
      StrOperand(<<"0", "0", ":", "0", "0", ":", "0", "0", ";", "0", "2">>),
      StrOperand(<<"0", "0", ":", "0", "0", ":", "0", "0", ".", "1">>),
      StrOperand(<<"0", "0", ":", "0", "0", ":", "0", "0">>) }
        \cup { TimecodeOperand(t) : t \in OperandInstances }

MutatorsInit ==
    /\ \E r \in MutatorRates, n \in 1 .. MaxFrames :
          tc = Timecode(r, StartFrames(n), FALSE, FALSE)
    /\ ret = [op |-> "__init__"]
    /\ hist = NoCall

(* tc.next() *)
NextCall ==
    /\ tc.frames + 1 <= MaxFrames
    /\ tc' = [tc EXCEPT !.frames = tc.frames + 1]
    /\ ret' = [op |-> "next", raised |-> frames_raises(tc.frames + 1)]
    /\ UNCHANGED hist

(* tc.back() *)
Back ==
    /\ tc' = IF frames_raises(tc.frames - 1) THEN tc
             ELSE [tc EXCEPT !.frames = tc.frames - 1]
    /\ ret' = [op |-> "back", raised |-> frames_raises(tc.frames - 1)]
    /\ UNCHANGED hist

(* tc.sub_frames(frames) *)
SubFrames ==
    /\ \E frames \in (0 - MaxFrames) .. MaxFrames :
          /\ tc.frames - frames <= MaxFrames
          /\ tc' = IF frames_raises(tc.frames - frames) THEN tc
                   ELSE [tc EXCEPT !.frames = tc.frames - frames]
          /\ ret' = [op |-> "sub_frames", frames |-> frames,
                     raised |-> frames_raises(tc.frames - frames)]
    /\ UNCHANGED hist

(* tc.mult_frames(frames) *)
MultFrames ==
    /\ \E frames \in (0 - MaxFrames) .. MaxFrames :
          /\ tc.frames * frames <= MaxFrames
          /\ tc' = IF frames_raises(tc.frames * frames) THEN tc
                   ELSE [tc EXCEPT !.frames = tc.frames * frames]
          /\ ret' = [op |-> "mult_frames", frames |-> frames,
                     raised |-> frames_raises(tc.frames * frames)]
    /\ UNCHANGED hist

(* tc.div_frames(frames) *)
DivFrames ==
    /\ \E frames \in (0 - MaxFrames - 1) .. (MaxFrames + 1) :
          /\ tc' = IF div_frames_raises(tc, frames) THEN tc
                   ELSE [tc EXCEPT !.frames = int_div(tc.frames, frames)]
          /\ ret' = [op |-> "div_frames", frames |-> frames,
                     raised |-> div_frames_raises(tc, frames)]
    /\ UNCHANGED hist

(* tc.frames = frames *)
FramesAssign ==
    /\ \E frames \in (0 - MaxFrames) .. MaxFrames :
          /\ tc' = IF frames_raises(frames) THEN tc ELSE [tc EXCEPT !.frames = frames]
          /\ ret' = [op |-> "frames", frames |-> frames,
                     raised |-> frames_raises(frames)]
    /\ UNCHANGED hist

(* tc.set_timecode(timecode) *)
SetTimecodeCall ==
    /\ \E timecode \in TimecodeArguments :
          IF tc_to_frames_raises(tc, timecode)
          THEN /\ tc' = tc
               /\ ret' = [op |-> "set_timecode", timecode |-> timecode,
                          raised |-> TRUE]
          ELSE /\ tc_to_frames_of(tc, timecode) <= MaxFrames
               /\ tc' = IF frames_raises(tc_to_frames_of(tc, timecode))
                        THEN after_tc_to_frames_of(tc, timecode)
                        ELSE [after_tc_to_frames_of(tc, timecode)
                                 EXCEPT !.frames = tc_to_frames_of(tc, timecode)]
               /\ ret' = [op |-> "set_timecode", timecode |-> timecode,
                          raised |-> frames_raises(tc_to_frames_of(tc, timecode))]
    /\ UNCHANGED hist

MutatorsNext ==
    \/ NextCall
    \/ Back
    \/ AddFrames
    \/ SubFrames
    \/ MultFrames
    \/ DivFrames
    \/ FramesAssign
    \/ SetTimecodeCall

SpecMutators == MutatorsInit /\ [][MutatorsNext]_vars

(* C11: after any sequence of next, back, add_frames, sub_frames,            *)
(* mult_frames, div_frames, set_timecode and frames assignments the frame    *)
(* count is an integer >= 1; a call that would make it <= 0 (back at frames  *)
(* = 1, div_frames by a number larger than frames) fails with an error and   *)
(* leaves the frame count unchanged.                                         *)
C11_FrameCountInvariant ==
    /\ [](tc.frames \in Nat /\ tc.frames >= 1)
    /\ [][/\ (ret'.op = "back" /\ tc.frames = 1) => ret'.raised
          /\ (ret'.op = "div_frames" /\ Abs(ret'.frames) > tc.frames)
                => ret'.raised
          /\ (ret'.op = "add_frames" /\ tc.frames + ret'.frames <= 0)
                => ret'.raised
          /\ (ret'.op = "sub_frames" /\ tc.frames - ret'.frames <= 0)
                => ret'.raised
          /\ (ret'.op = "mult_frames" /\ tc.frames * ret'.frames <= 0)
                => ret'.raised
          /\ (ret'.op = "frames" /\ ret'.frames <= 0) => ret'.raised
          /\ ret'.raised => tc'.frames = tc.frames]_vars

C11_Witness ==
    /\ ret.op = "div_frames"
    /\ ret.frames = MaxFrames + 1
    /\ ret.raised
    /\ tc.frames = MaxFrames

---------------------------------------------------------------------------
(* Claims on the drop-frame flag *)

DropFrameAllowed(t) == t.drop_frame => (t.is_ntsc_rate /\ t.int_framerate % 30 = 0)

ArithmeticCalled(r) == r.op \in { "__add__", "__sub__", "__mul__", "__div__" }

(* C12: in every state reached through construction (with or without         *)
(* force_non_drop_frame), framerate reassignment and the arithmetic          *)
(* operators, drop_frame holds only if the rate is classified NTSC and the   *)
(* nominal integer rate is a multiple of 30, for the instance and for the    *)
(* results of the operators; reassigning the framerate of a drop-frame       *)
(* instance to a rate that is not NTSC or not a multiple of 30 clears        *)
(* drop_frame.                                                               *)
C12_DropFrameInvariant ==
    /\ [](/\ DropFrameAllowed(tc)
          /\ (ArithmeticCalled(ret) /\ ~ret.raised) => DropFrameAllowed(ret.value))
    /\ [][(/\ ret'.op = "framerate"
           /\ ~ret'.raised
           /\ tc.drop_frame
           /\ ~tc'.is_ntsc_rate \/ tc'.int_framerate % 30 # 0)
              => ~tc'.drop_frame]_vars

C12_Witness ==
    /\ hist.framerate = Decimal(29, 97, 100)
    /\ ~hist.force_non_drop_frame
    /\ ret.op = "framerate"
    /\ ret.framerate = Decimal(23, 976, 1000)
    /\ tc.is_ntsc_rate
    /\ tc.int_framerate = 24
    /\ ~tc.drop_frame

---------------------------------------------------------------------------
(* Comparisons and the calls that return a value: one instance, and the     *)
(* conversions, comparisons, operators and projections called on it         *)

(* Timecode.to_systemtime raises: Fraction() of the float frame field *)
to_systemtime_raises(self) == self.fraction_frame

(* to_systemtime: the timestamp of the tuple <<hh, mm, ss, ff>> *)
systemtime_of_tuple(self, t) ==
    FractionSum(t[3] + 60 * (t[2] + 60 * t[1]),
                  t[4] + (IF self.reference_time_on_display THEN 0 ELSE 1),
                  self.int_framerate)

(* Timecode.to_systemtime: the exact timestamp, a Fraction of seconds *)
to_systemtime(self) ==
    systemtime_of_tuple(self, frames_to_tc(self, self.frames, TRUE))

(* the comparisons of a str: new_tc = Timecode(self.framerate, other) raises *)
compare_raises(self, other) ==
    other.kind = "str"
        /\ new_raises(own_rate(self), StartTimecode(other.obj), FALSE, FALSE)

(* the Timecode a comparison compares with: other, or Timecode(self.framerate, other) *)
compared_timecode(self, other) ==
    IF other.kind = "str"
    THEN Timecode(own_rate(self), StartTimecode(other.obj), FALSE, FALSE)
    ELSE other.obj

(* the frame count an ordering comparison compares with *)
compared_frames(self, other) ==
    IF other.kind = "str" THEN compared_timecode(self, other).frames
    ELSE other.frames

same_framerate_ignored(self, other) == TRUE

(* the orderings of a Timecode: self.framerate == other.framerate *)
same_framerate(self, other) ==
    other.kind = "Timecode" => self.framerate = other.obj.framerate

(* Timecode.__eq__ *)
eq(self, other) ==
    IF other.kind = "int" THEN self.frames = other.frames
    ELSE /\ self.framerate = compared_timecode(self, other).framerate
         /\ self.frames = compared_timecode(self, other).frames

(* Timecode.__ge__ *)
ge(self, other) ==
    same_framerate(self, other) /\ self.frames >= compared_frames(self, other)

(* Timecode.__gt__ *)
gt(self, other) ==
    same_framerate(self, other) /\ self.frames > compared_frames(self, other)

(* Timecode.__le__ *)
le(self, other) ==
    same_framerate(self, other) /\ self.frames <= compared_frames(self, other)

(* Timecode.__lt__ *)
lt(self, other) ==
    same_framerate(self, other) /\ self.frames < compared_frames(self, other)

(* right-hand operands of the comparisons *)
CompareOperands ==
    Operands \cup { a \in TimecodeArguments : a.kind = "str" }

PureInit ==
    /\ \E r \in MutatorRates, n \in { 1, MaxFrames } \cup ExampleFrames,
          d \in BOOLEAN :
          tc = Timecode(r, StartFrames(n), FALSE, d)
    /\ ret = [op |-> "__init__"]
    /\ hist = NoCall

(* tc.tc_to_frames(timecode) *)
TcToFrames ==
    /\ Changed
    /\ \E timecode \in TimecodeArguments :
          /\ tc' = IF tc_to_frames_raises(tc, timecode) THEN tc
                   ELSE after_tc_to_frames_of(tc, timecode)
          /\ ret' = [op |-> "tc_to_frames", timecode |-> timecode,
                     raised |-> tc_to_frames_raises(tc, timecode),
                     value |-> IF tc_to_frames_raises(tc, timecode) THEN 0
                               ELSE tc_to_frames_of(tc, timecode)]
    /\ UNCHANGED hist

(* tc.frames_to_tc(frames, skip_rollover) *)
FramesToTc ==
    /\ Changed
    /\ \E frames \in (1 .. MaxFrames) \cup ExampleFrames, skip_rollover \in BOOLEAN :
          ret' = [op |-> "frames_to_tc", frames |-> frames,
                  skip_rollover |-> skip_rollover,
                  value |-> frames_to_tc(tc, frames, skip_rollover)]
    /\ UNCHANGED <<tc, hist>>

(* tc.to_systemtime() *)
ToSystemtime ==
    /\ Changed
    /\ ret' = [op |-> "to_systemtime", raised |-> to_systemtime_raises(tc),
               value |-> IF to_systemtime_raises(tc) THEN <<>>
                         ELSE to_systemtime(tc)]
    /\ UNCHANGED <<tc, hist>>

(* tc == other *)
Eq ==
    /\ Changed
    /\ \E other \in CompareOperands :
          ret' = [op |-> "__eq__", other |-> other,
                  raised |-> compare_raises(tc, other),
                  value |-> IF compare_raises(tc, other) THEN <<>> ELSE eq(tc, other)]
    /\ UNCHANGED <<tc, hist>>

(* tc >= other *)
Ge ==
    /\ Changed
    /\ \E other \in CompareOperands :
          ret' = [op |-> "__ge__", other |-> other,
                  raised |-> compare_raises(tc, other),
                  value |-> IF compare_raises(tc, other) THEN <<>> ELSE ge(tc, other)]
    /\ UNCHANGED <<tc, hist>>

(* tc > other *)
Gt ==
    /\ Changed
    /\ \E other \in CompareOperands :
          ret' = [op |-> "__gt__", other |-> other,
                  raised |-> compare_raises(tc, other),
                  value |-> IF compare_raises(tc, other) THEN <<>> ELSE gt(tc, other)]
    /\ UNCHANGED <<tc, hist>>

(* tc <= other *)
Le ==
    /\ Changed
    /\ \E other \in CompareOperands :
          ret' = [op |-> "__le__", other |-> other,
                  raised |-> compare_raises(tc, other),
                  value |-> IF compare_raises(tc, other) THEN <<>> ELSE le(tc, other)]
    /\ UNCHANGED <<tc, hist>>

(* tc < other *)
Lt ==
    /\ Changed
    /\ \E other \in CompareOperands :
          ret' = [op |-> "__lt__", other |-> other,
                  raised |-> compare_raises(tc, other),
                  value |-> IF compare_raises(tc, other) THEN <<>> ELSE lt(tc, other)]
    /\ UNCHANGED <<tc, hist>>

PureNext ==
    \/ SetFractional
    \/ TcToFrames
    \/ FramesToTc
    \/ StrCall
    \/ ToSystemtime
    \/ ToRealtime
    \/ Eq
    \/ Ge
    \/ Gt
    \/ Le
    \/ Lt
    \/ Add
    \/ Sub
    \/ Mul
    \/ Div

SpecPure == PureInit /\ [][PureNext]_vars

(* the calls that are neither in-place frame mutators nor setters *)
PureCalls ==
    { "tc_to_frames", "frames_to_tc", "__str__", "to_systemtime", "to_realtime",
      "__eq__", "__ge__", "__gt__", "__le__", "__lt__",
      "__add__", "__sub__", "__mul__", "__div__" }

(* C13: every call other than the in-place frame mutators and the explicit   *)
(* setters leaves every attribute of the instance unchanged; in particular   *)
(* tc_to_frames of a string with any of the separators ':', ';' and '.',     *)
(* frames_to_tc, the comparisons, the arithmetic operators and the timestamp *)
(* projections change neither the frame count, the rate nor a display flag.  *)
C13_Purity == [][ret'.op \in PureCalls => tc' = tc]_vars

---------------------------------------------------------------------------
(* Timestamps: the projections of an instance near the minute marks of the  *)
(* day, and the rendering of a _Timestamp                                   *)

(* <<floor(rem * 10^digits / den), the remainder>> by long division *)
RECURSIVE scaled(_, _, _)
scaled(rem, den, digits) ==
    IF digits = 0 THEN <<0, rem>>
    ELSE LET p == scaled(rem, den, digits - 1)
         IN  <<p[1] * 10 + (p[2] * 10) \div den, (p[2] * 10) % den>>

(* round() of quotient + rem/den: nearest integer, ties to even *)
round_from(p, den) ==
    IF 2 * p[2] < den THEN p[1]
    ELSE IF 2 * p[2] > den THEN p[1] + 1
    ELSE IF p[1] % 2 = 0 THEN p[1] ELSE p[1] + 1

(* int() of quotient + rem/den: the quotient *)
truncated_from(p, den) == p[1]

(* _Timestamp.__str__: round(decimal_part), round(decimal_part * 1000) *)
s_decimal_part(ts, usec_precision) ==
    IF usec_precision
    THEN Format0d(round_from(scaled(ts.fn, ts.fd, 6), ts.fd), 6)
    ELSE Format0d(round_from(scaled(ts.fn, ts.fd, 3), ts.fd), 3)

(* _Timestamp.__str__ *)
timestamp_str(ts, usec_precision) ==
    Format0d(ts.ip \div 3600, 2) \o <<":">> \o Format0d((ts.ip \div 60) % 60, 2)
        \o <<":">> \o Format0d(ts.ip % 60, 2) \o <<".">>
        \o s_decimal_part(ts, usec_precision)

(* _Timestamp.__init__ raises: ValueError for ts < 0 *)
timestamp_raises(ts) == ts.ip < 0

TimestampConfigs ==
    { [Timecode(c[1], NoStart, FALSE, c[2]) EXCEPT !.usec_timestamps = c[3]] :
        c \in { <<Decimal(29, 97, 100), FALSE, FALSE>>,
                <<Decimal(29, 97, 100), TRUE, FALSE>>,
                <<Decimal(29, 97, 100), TRUE, TRUE>>,
                <<Pair(25, 1), FALSE, TRUE>> } }

(* exact timestamps handed to _Timestamp directly *)
TimestampInputs ==
    { FractionSum(t[1], t[2], t[3]) :
        t \in { <<0, 0, 1>>, <<0, 1, 3>>, <<0, 2, 3>>, <<0, 1, 2000>>,
                <<0, 3, 2000>>, <<0, 9994, 10000>>, <<0, 9996, 10000>>,
                <<59, 9996, 10000>>, <<3599, 9996, 10000>>,
                <<0, 9999994, 10000000>>, <<0, 9999996, 10000000>>,
                <<86399, 1, 1000>>, <<-1, 1, 2>> } }

TimestampsInit ==
    /\ \E c \in TimestampConfigs : \E n \in CodecFrames(c) :
          tc = [c EXCEPT !.frames = n]
    /\ ret = [op |-> "frames", frames |-> tc.frames]
    /\ hist = NoCall

(* _Timestamp(ts, usec_precision) *)
NewTimestamp ==
    /\ ret.op = "frames"
    /\ tc.frames = 1
    /\ \E ts \in TimestampInputs :
          ret' = [op |-> "_Timestamp", raised |-> timestamp_raises(ts),
                  value |-> ts]
    /\ UNCHANGED <<tc, hist>>

(* str(timestamp) of the timestamp just returned *)
TimestampStr ==
    /\ ret.op \in { "to_systemtime", "to_realtime", "_Timestamp" }
    /\ ret.op \in { "to_systemtime", "_Timestamp" } => ~ret.raised
    /\ ret' = [op |-> "_Timestamp.__str__", ts |-> ret.value,
               usec_precision |-> tc.usec_timestamps,
               value |-> timestamp_str(ret.value, tc.usec_timestamps)]
    /\ UNCHANGED <<tc, hist>>

TimestampsNext ==
    \/ ToSystemtime
    \/ ToRealtime
    \/ NewTimestamp
    \/ TimestampStr

SpecTimestamps == TimestampsInit /\ [][TimestampsNext]_vars

(* HH:MM:SS.fff with the sub-second part cut to the given number of digits *)
TruncatedRendering(ts, digits) ==
    Format0d(ts.ip \div 3600, 2) \o <<":">> \o Format0d((ts.ip \div 60) % 60, 2)
        \o <<":">> \o Format0d(ts.ip % 60, 2) \o <<".">>
        \o Format0d(truncated_from(scaled(ts.fn, ts.fd, digits), ts.fd), digits)

(* C14: a non-negative exact timestamp renders as HH:MM:SS.fff with the      *)
(* sub-second part truncated to milliseconds and zero-padded to exactly 3    *)
(* digits (to microseconds and exactly 6 digits with microsecond precision), *)
(* so the fraction field never shows 1000 (or 1000000).                      *)
C14_TimestampRendering ==
    ret.op = "_Timestamp.__str__" =>
        LET digits == IF ret.usec_precision THEN 6 ELSE 3
        IN  /\ ret.value = TruncatedRendering(ret.ts, digits)
            /\ Len(Split(ret.value, {"."})[2]) = digits

(* |x - y| < 1 for two Fractions x, y >= 0 *)
WithinOneSecond(x, y) ==
    \/ x.ip = y.ip
    \/ x.ip = y.ip + 1 /\ x.fn * y.fd < y.fn * x.fd
    \/ y.ip = x.ip + 1 /\ y.fn * x.fd < x.fn * y.fd

(* C17: at 29.97 drop-frame, for every frame count from 1 to the frames of   *)
(* 24 hours and either display-reference setting, the system time (from the  *)
(* displayed label) and the real time (from the exact rate 30000/1001)       *)
(* differ by less than one second.                                           *)
C17_DropFrameTracksWallClock ==
    (/\ ret.op = "to_systemtime"
     /\ Drop2997(tc)
     /\ tc.frames >= 1
     /\ tc.frames <= FramesPerDay(tc))
        => ~ret.raised /\ WithinOneSecond(ret.value, to_realtime(tc))

C17_Witness ==
    /\ ret.op = "to_systemtime"
    /\ Drop2997(tc)
    /\ ~tc.reference_time_on_display
    /\ tc.frames = FramesPerDay(tc)
    /\ ret.value = FractionSum(86400, 0, 1)
    /\ to_realtime(tc) = FractionSum(86399, 1142, 1250)

---------------------------------------------------------------------------
(* Packed-integer timecodes: tc_to_frames and parse_timecode of an int      *)

(* a non-negative int below 2^32 as its two 16-bit halves hi * 2^16 + lo    *)
PackedInt(hi, lo) == [kind |-> "int", hi |-> hi, lo |-> lo]

HexChars ==
    <<"0", "1", "2", "3", "4", "5", "6", "7", "8", "9", "a", "b", "c", "d", "e", "f">>

(* hex(n)[2:] for n >= 0 *)
RECURSIVE Hex(_)
Hex(n) ==
    IF n < 16 THEN <<HexChars[n + 1]>>
    ELSE Hex(n \div 16) \o <<HexChars[(n % 16) + 1]>>

(* parse_timecode: hex(timecode)[2:].zfill(8) *)
hex_repr(timecode) ==
    ZFill(IF timecode.hi = 0 THEN Hex(timecode.lo)
          ELSE Hex(timecode.hi) \o ZFill(Hex(timecode.lo), 4),
          8)

(* parse_timecode: [hex_repr[i : i + 2] for i in range(2, 10, 2)] *)
hex_pairs(timecode) ==
    [i \in 1 .. 4 |-> SubSeq(hex_repr(timecode), 2 * i - 1, 2 * i)]

(* parse_timecode of an int raises: int() of a pair with a digit a..f *)
parse_int_raises(timecode) ==
    \E i \in 1 .. 4 : ~IsNumber(hex_pairs(timecode)[i])

(* the value of a hex digit *)
HexVal(c) == CHOOSE d \in 0 .. 15 : HexChars[d + 1] = c

(* the pairs read as base-16 numbers *)
parse_timecode_int_base16(timecode) ==
    [i \in 1 .. 4 |-> 16 * HexVal(hex_pairs(timecode)[i][1])
                        + HexVal(hex_pairs(timecode)[i][2])]

(* Timecode.parse_timecode of an int: <<hrs, mins, secs, frs>> *)
parse_timecode_int(timecode) ==
    [i \in 1 .. 4 |-> ParseInt(hex_pairs(timecode)[i])]

(* tc_to_frames of an int: ":".join(str(t) for t in time_tokens), with the  *)
(* last ":" replaced by ";" if self.drop_frame                              *)
joined_tokens(self, t) ==
    Str(t[1]) \o <<":">> \o Str(t[2]) \o <<":">> \o Str(t[3])
        \o <<IF self.drop_frame THEN ";" ELSE ":">> \o Str(t[4])

(* Timecode.tc_to_frames of an int: the frame count of the parsed fields,   *)
(* computed as for the string joined from them                              *)
tc_to_frames_int(self, timecode) ==
    tc_to_frames(self, joined_tokens(self, parse_timecode_int(timecode)))

(* the 16-bit word whose four hex digits are the decimal digits of a and b *)
PackedWord(a, b) ==
    (a \div 10) * 4096 + (a % 10) * 256 + (b \div 10) * 16 + (b % 10)

(* the int whose 8 hex digits are the decimal digits of H, M, S, F *)
PackedFields(f) == PackedInt(PackedWord(f[1], f[2]), PackedWord(f[3], f[4]))

(* the string "HH:MM:SS:FF" *)
FieldsString(f) ==
    Format0d(f[1], 2) \o <<":">> \o Format0d(f[2], 2) \o <<":">>
        \o Format0d(f[3], 2) \o <<":">> \o Format0d(f[4], 2)

(* two-digit field values of the packed-integer runs *)
HourFields == { 0, 1, 9, 10, 23, 24, 79, 80, 99 }

MinuteFields == { 0, 1, 9, 10, 59, 99 }

FrameFields == { 0, 1, 2, 29, 59, 99 }

(* ints with a hex digit a..f, and short ints *)
RawInts == { PackedInt(0, 5), PackedInt(0, 10), PackedInt(0, 256 * 11),
             PackedInt(15 * 4096, 0), PackedInt(1, 0) }

PackedInputs ==
    { [fields |-> f, int |-> PackedFields(f)] :
        f \in HourFields \X MinuteFields \X MinuteFields \X FrameFields }
        \cup { [fields |-> <<>>, int |-> k] : k \in RawInts }

PackedConfigs ==
    { Timecode(c[1], NoStart, c[2], FALSE) :
        c \in { <<Pair(30, 1), FALSE>>,
                <<Decimal(29, 97, 100), FALSE>>,
                <<Decimal(29, 97, 100), TRUE>>,
                <<Decimal(59, 94, 100), FALSE>> } }

PackedInit ==
    /\ tc \in PackedConfigs
    /\ ret = [op |-> "__init__"]
    /\ hist = NoCall

(* tc.tc_to_frames(<int>) *)
DecodePacked ==
    /\ ret.op = "__init__"
    /\ \E input \in PackedInputs :
          ret' = [op |-> "tc_to_frames", timecode |-> input.int,
                  fields |-> input.fields,
                  raised |-> parse_int_raises(input.int),
                  value |-> IF parse_int_raises(input.int) THEN 0
                            ELSE tc_to_frames_int(tc, input.int)]
    /\ hist' = ret
    /\ UNCHANGED tc

(* tc.tc_to_frames("HH:MM:SS:FF") of the fields the int was packed from *)
DecodeFields ==
    /\ ret.op = "tc_to_frames"
    /\ ret.timecode.kind = "int"
    /\ ret.fields # <<>>
    /\ tc' = after_tc_to_frames(tc, FieldsString(ret.fields))
    /\ ret' = [op |-> "tc_to_frames",
               timecode |-> StrOperand(FieldsString(ret.fields)),
               fields |-> ret.fields,
               raised |-> parse_raises(FieldsString(ret.fields)),
               value |-> tc_to_frames(tc, FieldsString(ret.fields))]
    /\ hist' = ret

PackedNext ==
    \/ DecodePacked
    \/ DecodeFields

SpecPacked == PackedInit /\ [][PackedNext]_vars

(* C15: for all two-decimal-digit fields H, M, S, F, decoding the integer    *)
(* whose 8 zero-padded hexadecimal digits are the decimal digits of H, M, S, *)
(* F yields the same frame count as decoding the string "HH:MM:SS:FF" on the *)
(* same instance, drop-frame or not.                                         *)
C15_PackedIntegerDecode ==
    (/\ ret.op = "tc_to_frames"
     /\ ret.timecode.kind = "str"
     /\ hist.op = "tc_to_frames"
     /\ hist.timecode.kind = "int")
        => /\ ~hist.raised
           /\ ~ret.raised
           /\ hist.value = ret.value

C15_Witness ==
    /\ ret.op = "tc_to_frames"
    /\ ret.timecode.kind = "str"
    /\ hist.op = "tc_to_frames"
    /\ hist.timecode = PackedInt(32768 + 89, 4096 + 2)
    /\ ret.timecode.obj = <<"8", "0", ":", "5", "9", ":", "1", "0", ":", "0", "2">>
    /\ tc.drop_frame
    /\ tc.int_framerate = 30
    /\ ret.value = hist.value


(***************************************************************************)
(* Construction from a seconds value: Timecode(framerate, start_seconds=s) *)
(***************************************************************************)

(* an exact seconds value (an int or a Fraction) num / den, den > 0 *)
Seconds(num, den) == [num |-> num, den |-> den]

start_seconds_no_offset(self, start_seconds) == start_seconds

(* _dispatch_set_frames: start_seconds += Fraction(1, self._int_framerate) *)
(* when reference_time_on_display is set                                   *)
start_seconds_offset(self, start_seconds) ==
    IF self.reference_time_on_display
    THEN Seconds(start_seconds.num * self.int_framerate + start_seconds.den,
                 start_seconds.den * self.int_framerate)
    ELSE start_seconds

(* _dispatch_set_frames: if start_seconds <= 0: raise ValueError *)
start_seconds_raises(start_seconds) == start_seconds.num <= 0

(* Timecode.seconds_to_tc: int(seconds * self._int_framerate) *)
seconds_to_tc(self, seconds) ==
    int_div(seconds.num * self.int_framerate, seconds.den)

(* _dispatch_set_frames, start_seconds branch: raises the ValueError of the *)
(* test on the seconds or the ValueError of the frames setter               *)
dispatch_seconds_raises(self, start_seconds) ==
    \/ start_seconds_raises(start_seconds_offset(self, start_seconds))
    \/ frames_raises(seconds_to_tc(self, start_seconds_offset(self, start_seconds)))

(* _dispatch_set_frames, start_seconds branch: the instance afterwards *)
dispatch_seconds(self, start_seconds) ==
    [self EXCEPT !.frames =
        seconds_to_tc(self, start_seconds_offset(self, start_seconds))]

(* Timecode.__init__ with start_seconds raises *)
new_from_seconds_raises(framerate, start_seconds, force_non_drop_frame, reference_time_on_display) ==
    \/ framerate_raises(framerate)
    \/ dispatch_seconds_raises(
           init_props(framerate, force_non_drop_frame, reference_time_on_display),
           start_seconds)

(* Timecode.__init__ with start_seconds *)
TimecodeFromSeconds(framerate, start_seconds, force_non_drop_frame, reference_time_on_display) ==
    dispatch_seconds(
        init_props(framerate, force_non_drop_frame, reference_time_on_display),
        start_seconds)

SecondsRates ==
    { Pair(30, 1), Decimal(29, 97, 100), Decimal(59, 94, 100), Pair(24, 1),
      Pair(25, 1), Token("ms"), Token("frames") }

SecondsDenominators == { 1, 24, 30, 60, 1000, 1001 }

SecondsInputs ==
    { Seconds(n, d) : n \in -2 .. 3, d \in SecondsDenominators }

(* the record of a constructor call with start_seconds *)
SecondsCall(r, s, f, d) ==
    [op |-> "__init__", framerate |-> r, start_seconds |-> s,
     force_non_drop_frame |-> f, reference_time_on_display |-> d,
     raised |-> new_from_seconds_raises(r, s, f, d)]

SecondsInit ==
    /\ tc = TimecodeFromSeconds(Pair(30, 1), Seconds(1, 1), FALSE, FALSE)
    /\ ret = SecondsCall(Pair(30, 1), Seconds(1, 1), FALSE, FALSE)
    /\ hist = NoCall

(* Timecode(r, start_seconds=s, force_non_drop_frame=f,                     *)
(*          reference_time_on_display=d); the exception of a constructor    *)
(* call ends the run, and no instance exists after it                       *)
NewFromSeconds ==
    \E r \in SecondsRates, s \in SecondsInputs, f \in BOOLEAN, d \in BOOLEAN :
        /\ ret.op = "__init__"
        /\ ~ret.raised
        /\ ret' = SecondsCall(r, s, f, d)
        /\ tc' = IF new_from_seconds_raises(r, s, f, d) THEN tc
                 ELSE TimecodeFromSeconds(r, s, f, d)
        /\ UNCHANGED hist

SecondsNext == NewFromSeconds \/ ToRealtime

SpecSeconds == SecondsInit /\ [][SecondsNext]_vars

OwnStringConfigs ==
    { Timecode(c[1], NoStart, c[2], FALSE) :
        c \in { <<Pair(30, 1), FALSE>>,
                <<Pair(25, 1), FALSE>>,
                <<Decimal(29, 97, 100), FALSE>>,
                <<Decimal(29, 97, 100), TRUE>>,
                <<Decimal(59, 94, 100), FALSE>>,
                <<Decimal(59, 94, 100), TRUE>>,
                <<Decimal(23, 976, 1000), FALSE>>,
                <<Token("ms"), FALSE>> } }

(* the frame counts of the first 24 hours next to the minute marks *)
OwnStringFrames(self) ==
    { n \in CodecFrames(self) : n <= frames_per_24_hours(self) }

OwnStringInit ==
    /\ \E c \in OwnStringConfigs : \E n \in OwnStringFrames(c) :
          tc = [c EXCEPT !.frames = n]
    /\ ret = [op |-> "frames", frames |-> tc.frames]
    /\ hist = NoCall

(* tc == str(tc), with the text just rendered *)
EqOwnString ==
    /\ ret.op = "__str__"
    /\ tc.frames = ret.frames
    /\ ret' = [op |-> "__eq__", other |-> StrOperand(ret.value),
               raised |-> compare_raises(tc, StrOperand(ret.value)),
               value |-> IF compare_raises(tc, StrOperand(ret.value)) THEN <<>>
                         ELSE eq(tc, StrOperand(ret.value))]
    /\ hist' = ret
    /\ UNCHANGED tc

OwnStringNext == Render \/ EqOwnString

SpecOwnString == OwnStringInit /\ [][OwnStringNext]_vars

(* C18: for every instance with fractional display off and a frame count   *)
(* from 1 to the frames of 24 hours (any rate, 29.97 and 59.94 with        *)
(* force_non_drop_frame included), the comparison of the instance with its *)
(* own rendering str(t) returns true                                       *)
C18_EqualOwnRendering ==
    (/\ ret.op = "__eq__"
     /\ hist.op = "__str__"
     /\ ~tc.fraction_frame
     /\ tc.frames >= 1
     /\ tc.frames <= frames_per_24_hours(tc))
        => (~ret.raised /\ ret.value = TRUE)


(* C19: with fractional display off, frames_to_tc with the rollover        *)
(* returns hours in 0 .. 23, minutes and seconds in 0 .. 59 and a frame    *)
(* field in 0 .. nominal integer rate - 1, for every frame count >= 1      *)
C19_FieldRanges ==
    (ret.op = "__str__" /\ ~tc.fraction_frame /\ ret.frames >= 1) =>
        /\ ret.tuple[1] \in 0 .. 23
        /\ ret.tuple[2] \in 0 .. 59
        /\ ret.tuple[3] \in 0 .. 59
        /\ ret.tuple[4] \in 0 .. (tc.int_framerate - 1)


(* exactly one of three results is true *)
ExactlyOne(a, b, c) == (a /\ ~b /\ ~c) \/ (~a /\ b /\ ~c) \/ (~a /\ ~b /\ c)

(* the state follows a < b with a the instance and b another Timecode *)
OrderedPair == ret.op = "__lt__" /\ ret.other.kind = "Timecode"

(* C20 as stated: for two Timecode values a and b of equal or different     *)
(* rates exactly one of a < b, a == b, a > b is true, and a <= b is true    *)
(* exactly when a < b or a == b                                             *)
C20_TrichotomyAnyRates ==
    OrderedPair =>
        /\ ExactlyOne(ret.value, eq(tc, ret.other), gt(tc, ret.other))
        /\ le(tc, ret.other) <=> (ret.value \/ eq(tc, ret.other))

(* C20: for two Timecode values a and b of the same rate exactly one of    *)
(* a < b, a == b, a > b is true; for two values of different rates none of *)
(* a < b, a == b, a > b, a <= b, a >= b is true; in both cases a <= b is   *)
(* true exactly when a < b or a == b                                       *)
C20_OrderingTrichotomy ==
    OrderedPair =>
        /\ tc.framerate = ret.other.obj.framerate =>
               ExactlyOne(ret.value, eq(tc, ret.other), gt(tc, ret.other))
        /\ tc.framerate # ret.other.obj.framerate =>
               /\ ~ret.value
               /\ ~eq(tc, ret.other)
               /\ ~gt(tc, ret.other)
               /\ ~le(tc, ret.other)
               /\ ~ge(tc, ret.other)
        /\ le(tc, ret.other) <=> (ret.value \/ eq(tc, ret.other))

C20_Witness ==
    /\ OrderedPair
    /\ ~ret.raised
    /\ tc.framerate = FractionOf(30, 1)
    /\ ret.other.obj.framerate = FractionOf(30000, 1001)
    /\ tc.frames < ret.other.frames
    /\ ret.value = FALSE

============================================================================
